---- MODULE Spec2Model ----
(***************************************************************************)
(* A model of the image-resizer HTTP service (main.go).                    *)
(*                                                                         *)
(* A request is a route, a query string and a body.  Handler.ServeHTTP     *)
(* first calls the route function (HandleResize, HandleConvert or          *)
(* HandleThumbnail), which only computes and returns the next handler,     *)
(* and then runs that next handler (the closure made by Image or Error),   *)
(* which writes the response.                                              *)
(*                                                                         *)
(* Byte strings are modelled by what the codecs read from them: an         *)
(* encoded image is its container format and its pixel dimensions, the     *)
(* pixel values themselves are left out.  Query values are real strings    *)
(* and strconv.Atoi parses them character by character.                    *)
(***************************************************************************)
EXTENDS Integers, Sequences, FiniteSets, TLC

VARIABLES
    pc,        \* per slot: "idle", "serve", "next", "logged" or "done"
    request,   \* per slot: the request being served
    next,      \* per slot: the handler the route function returned
    result,    \* per slot: what the transform function returned, if it ran
    response,  \* per slot: what has been written to the ResponseWriter
    log,       \* the lines written to the server's log
    main       \* the process: where main() is, its environment, arguments,
               \* flags and listening address

vars == <<pc, request, next, result, response, log, main>>

----------------------------------------------------------------------------
(* Bounds of the model.                                                    *)

\* requested dimensions 0..MaxDim (and their negatives) are enumerated
MaxDim == 3
\* source images of 1..MaxSrc pixels in each direction are enumerated
MaxSrc == 3
\* request slots of the server (concurrent connections)
NumSlots == 2

----------------------------------------------------------------------------
(* Constants of the program and of the libraries it calls.                 *)

StatusOK == 200
StatusBadRequest == 400
StatusUnprocessableEntity == 422
StatusInternalServerError == 500

ErrUnsupportedFormat == "unsupported format"
ErrInvalidImage == "invalid image"
\* the nil error
Nil == "<nil>"

formatJPEG == "jpeg"
formatPNG == "png"
formatGIF == "gif"

\* image/jpeg and image/gif refuse to encode an image whose width or height
\* is 1<<16 or more; image/png refuses a width or height below 1.
EncLimit == 65536

\* The decoders registered with package image by the imports of main.go.
RegisteredFormats == {formatGIF, formatJPEG, formatPNG}

Routes == {"/resize", "/convert", "/thumbnail"}

Slots == 1 .. NumSlots

----------------------------------------------------------------------------
(* Byte strings.                                                           *)

EmptyBytes == [fmt |-> "empty", w |-> 0, h |-> 0, text |-> ""]

TextBytes(s) == [fmt |-> "text", w |-> 0, h |-> 0, text |-> s]

\* The bytes of a well-formed image file of container format f, w x h pixels.
ImageBytes(f, w, h) == [fmt |-> f, w |-> w, h |-> h, text |-> ""]

----------------------------------------------------------------------------
(* strconv.                                                                *)

Digits == <<"0", "1", "2", "3", "4", "5", "6", "7", "8", "9">>

IsDigit(c) == \E i \in 1 .. 10 : Digits[i] = c

DigitVal(c) == (CHOOSE i \in 1 .. 10 : Digits[i] = c) - 1

RECURSIVE Itoa(_)
Itoa(n) ==
    IF n < 0 THEN "-" \o Itoa(-n)
    ELSE IF n < 10 THEN Digits[n + 1]
    ELSE Itoa(n \div 10) \o Digits[(n % 10) + 1]

RECURSIVE ParseDigits(_, _)
\* the value of the digit string s continued from the value acc, or -1
\* when s holds a character that is no digit
ParseDigits(s, acc) ==
    IF s = "" THEN acc
    ELSE IF ~IsDigit(SubSeq(s, 1, 1)) THEN -1
    ELSE ParseDigits(SubSeq(s, 2, Len(s)), acc * 10 + DigitVal(SubSeq(s, 1, 1)))

RECURSIVE LeadingDigits(_, _)
LeadingDigits(s, acc) ==
    IF s = "" \/ ~IsDigit(SubSeq(s, 1, 1)) THEN acc
    ELSE LeadingDigits(SubSeq(s, 2, Len(s)), acc * 10 + DigitVal(SubSeq(s, 1, 1)))

\* Atoi as it would be if it read the leading digits and ignored the rest
Atoi_Prefix(s) ==
    LET signed == s /= "" /\ SubSeq(s, 1, 1) \in {"+", "-"}
        digits == IF signed THEN SubSeq(s, 2, Len(s)) ELSE s
    IN  IF digits = "" \/ ~IsDigit(SubSeq(digits, 1, 1))
        THEN [n |-> 0, err |-> "invalid syntax"]
        ELSE IF signed /\ SubSeq(s, 1, 1) = "-"
        THEN [n |-> -LeadingDigits(digits, 0), err |-> Nil]
        ELSE [n |-> LeadingDigits(digits, 0), err |-> Nil]

\* strconv.Atoi: an optional sign and then one or more decimal digits.
Atoi(s) ==
    LET signed == s /= "" /\ SubSeq(s, 1, 1) \in {"+", "-"}
        digits == IF signed THEN SubSeq(s, 2, Len(s)) ELSE s
        mag == IF digits = "" THEN -1 ELSE ParseDigits(digits, 0)
    IN  IF mag < 0 THEN [n |-> 0, err |-> "invalid syntax"]
        ELSE IF signed /\ SubSeq(s, 1, 1) = "-" THEN [n |-> -mag, err |-> Nil]
        ELSE [n |-> mag, err |-> Nil]

----------------------------------------------------------------------------
(* net/url: the query string.                                              *)

NoParam == [present |-> FALSE, value |-> ""]

Param(v) == [present |-> TRUE, value |-> v]

\* url.Values.Get: the value of key k, or "" when the key is absent
Get(q, k) == IF q[k].present THEN q[k].value ELSE ""

----------------------------------------------------------------------------
(* The requests the model enumerates.                                      *)

DimValues == (0 .. MaxDim) \cup {EncLimit - 1, EncLimit}

NumericValues ==
    {Itoa(n) : n \in DimValues} \cup {Itoa(-n) : n \in 1 .. MaxDim} \cup {"+2"}

NonNumericValues == {"abc", "5x", "-"}

DimArgs == {NoParam, Param("")} \cup {Param(v) : v \in NumericValues \cup NonNumericValues}

FormatArgs ==
    {NoParam, Param("")} \cup {Param(v) : v \in {formatJPEG, formatPNG, formatGIF, "bmp"}}

\* Request bodies: no bytes, bytes that are no image, a BMP file (an image,
\* but of a format no registered decoder reads), and JPEG, PNG and GIF files.
\* A PNG file can be wider than the JPEG and GIF containers can record.
Bodies ==
    {EmptyBytes, TextBytes("not an image")} \cup
    {ImageBytes("bmp", 2, 2)} \cup
    {ImageBytes(f, w, h) : f \in RegisteredFormats, w \in 1 .. MaxSrc, h \in 1 .. MaxSrc} \cup
    {ImageBytes(formatPNG, EncLimit, 1)}

Queries(route) ==
    IF route = "/resize"
    THEN [height : DimArgs, width : DimArgs, format : {NoParam, Param(formatJPEG)}]
    ELSE IF route = "/convert"
    THEN [height : {NoParam}, width : {NoParam, Param("abc")}, format : FormatArgs]
    ELSE [height : {NoParam, Param("abc")}, width : DimArgs, format : {NoParam}]

Requests ==
    UNION {[route : {rt}, query : Queries(rt), body : Bodies] : rt \in Routes}

----------------------------------------------------------------------------
(* Package image: rectangles, rasters and the codecs.                      *)

\* image.Rect: the rectangle with the given corners, made well-formed by
\* swapping the coordinates that are out of order
Rect(x0, y0, x1, y1) ==
    [Min |-> [X |-> IF x0 > x1 THEN x1 ELSE x0, Y |-> IF y0 > y1 THEN y1 ELSE y0],
     Max |-> [X |-> IF x0 > x1 THEN x0 ELSE x1, Y |-> IF y0 > y1 THEN y0 ELSE y1]]

Dx(r) == r.Max.X - r.Min.X

Dy(r) == r.Max.Y - r.Min.Y

\* image.NewRGBA: a raster with the given bounds
NewRGBA(r) == [Rect |-> r]

Bounds(img) == img.Rect

NoImage == NewRGBA(Rect(0, 0, 0, 0))

\* Go's integer division truncates toward zero
GoDiv(a, b) ==
    LET abs(x) == IF x < 0 THEN -x ELSE x
    IN  IF (a < 0) = (b < 0) THEN abs(a) \div abs(b) ELSE -(abs(a) \div abs(b))

\* image.Decode: the raster and the name of the registered format whose
\* decoder reads the bytes; an error when no registered decoder does
Decode(r) ==
    IF r.fmt \in RegisteredFormats
    THEN [img |-> NewRGBA(Rect(0, 0, r.w, r.h)), format |-> r.fmt, err |-> Nil]
    ELSE [img |-> NoImage, format |-> "", err |-> "image: unknown format"]

\* draw.CatmullRom.Scale fills the pixels of dst from src; the bounds of dst
\* are unchanged
Scale(dst, dr, src, sr) == dst

\* jpeg.Encode
EncodeJPEG(img) ==
    IF Dx(Bounds(img)) >= EncLimit \/ Dy(Bounds(img)) >= EncLimit
    THEN [data |-> EmptyBytes, err |-> "jpeg: image is too large to encode"]
    ELSE [data |-> ImageBytes(formatJPEG, Dx(Bounds(img)), Dy(Bounds(img))), err |-> Nil]

\* png.Encode (its upper limit of 1<<32 is beyond the sizes of the model)
EncodePNG(img) ==
    IF Dx(Bounds(img)) <= 0 \/ Dy(Bounds(img)) <= 0
    THEN [data |-> EmptyBytes,
          err |-> "png: invalid format: invalid image size: "
                  \o Itoa(Dx(Bounds(img))) \o "x" \o Itoa(Dy(Bounds(img)))]
    ELSE [data |-> ImageBytes(formatPNG, Dx(Bounds(img)), Dy(Bounds(img))), err |-> Nil]

\* gif.Encode
EncodeGIF(img) ==
    IF Dx(Bounds(img)) >= EncLimit \/ Dy(Bounds(img)) >= EncLimit
    THEN [data |-> EmptyBytes, err |-> "gif: image is too large to encode"]
    ELSE [data |-> ImageBytes(formatGIF, Dx(Bounds(img)), Dy(Bounds(img))), err |-> Nil]

----------------------------------------------------------------------------
(* The transform functions.  The context argument is never consulted and   *)
(* is left out.                                                            *)

\* EncodeImage as it would be if an unknown format fell back to PNG
EncodeImage_DefaultPNG(img, format) ==
    IF format = formatJPEG THEN EncodeJPEG(img)
    ELSE IF format = formatGIF THEN EncodeGIF(img)
    ELSE EncodePNG(img)

EncodeImage(img, format) ==
    IF format = formatJPEG THEN EncodeJPEG(img)
    ELSE IF format = formatPNG THEN EncodePNG(img)
    ELSE IF format = formatGIF THEN EncodeGIF(img)
    ELSE [data |-> EmptyBytes, err |-> ErrUnsupportedFormat]

\* ResizeImage as it would be with the sides of the rectangle exchanged
ResizeImage_Swapped(r, height, width) ==
    LET d == Decode(r)
        rect == Rect(0, 0, height, width)
        resized == Scale(NewRGBA(rect), rect, d.img, Bounds(d.img))
    IN  IF d.err /= Nil THEN [data |-> EmptyBytes, err |-> ErrInvalidImage]
        ELSE EncodeImage(resized, d.format)

\* ResizeImage as it would be if it passed the decoder's error on
ResizeImage_RawError(r, height, width) ==
    LET d == Decode(r)
        rect == Rect(0, 0, width, height)
        resized == Scale(NewRGBA(rect), rect, d.img, Bounds(d.img))
    IN  IF d.err /= Nil THEN [data |-> EmptyBytes, err |-> d.err]
        ELSE EncodeImage(resized, d.format)

ResizeImage(r, height, width) ==
    LET d == Decode(r)
        rect == Rect(0, 0, width, height)
        resized == Scale(NewRGBA(rect), rect, d.img, Bounds(d.img))
    IN  IF d.err /= Nil THEN [data |-> EmptyBytes, err |-> ErrInvalidImage]
        ELSE EncodeImage(resized, d.format)

\* ConvertImage as it would be if it re-encoded in the detected format
ConvertImage_SourceFormat(r, format) ==
    LET d == Decode(r)
    IN  IF d.err /= Nil THEN [data |-> EmptyBytes, err |-> ErrInvalidImage]
        ELSE EncodeImage(d.img, d.format)

ConvertImage(r, format) ==
    LET d == Decode(r)
    IN  IF d.err /= Nil THEN [data |-> EmptyBytes, err |-> ErrInvalidImage]
        ELSE EncodeImage(d.img, format)

\* ThumbnailImage as it would be if the height were rounded to nearest
ThumbnailImage_Rounded(r, width) ==
    LET d == Decode(r)
        height == GoDiv(2 * Dy(Bounds(d.img)) * width + Dx(Bounds(d.img)),
                        2 * Dx(Bounds(d.img)))
        rect == Rect(0, 0, width, height)
        resized == Scale(NewRGBA(rect), rect, d.img, Bounds(d.img))
    IN  IF d.err /= Nil THEN [data |-> EmptyBytes, err |-> ErrInvalidImage]
        ELSE EncodeImage(resized, d.format)

ThumbnailImage(r, width) ==
    LET d == Decode(r)
        height == GoDiv(Dy(Bounds(d.img)) * width, Dx(Bounds(d.img)))
        rect == Rect(0, 0, width, height)
        resized == Scale(NewRGBA(rect), rect, d.img, Bounds(d.img))
    IN  IF d.err /= Nil THEN [data |-> EmptyBytes, err |-> ErrInvalidImage]
        ELSE EncodeImage(resized, d.format)

----------------------------------------------------------------------------
(* The handlers.  A route function returns the next handler; beside it     *)
(* the model records what the transform returned and whether the request   *)
(* body was read (the transform is what reads it).                         *)

NoHandler == [fn |-> "nil", code |-> 0, err |-> Nil, data |-> EmptyBytes]

\* Image(code, data): the handler that writes data
Image(code, data) == [fn |-> "Image", code |-> code, err |-> Nil, data |-> data]

\* Error(code, err): the handler that logs err and writes it
Error(code, err) == [fn |-> "Error", code |-> code, err |-> err, data |-> EmptyBytes]

NotRun == [ran |-> FALSE, data |-> EmptyBytes, err |-> Nil]

Ran(t) == [ran |-> TRUE, data |-> t.data, err |-> t.err]

Rejected(h) == [next |-> h, result |-> NotRun]

\* HandleResize as it would be if it parsed width before height
HandleResize_WidthFirst(req) ==
    LET heightParam == Get(req.query, "height")
        widthParam == Get(req.query, "width")
        height == Atoi(heightParam)
        width == Atoi(widthParam)
        t == ResizeImage(req.body, height.n, width.n)
    IN  IF heightParam = "" \/ widthParam = ""
        THEN Rejected(Error(StatusBadRequest, "missing required parameters"))
        ELSE IF width.err /= Nil
        THEN Rejected(Error(StatusBadRequest, "invalid width: " \o widthParam))
        ELSE IF height.err /= Nil
        THEN Rejected(Error(StatusBadRequest, "invalid height: " \o heightParam))
        ELSE IF t.err = ErrUnsupportedFormat
        THEN [next |-> Error(StatusUnprocessableEntity, t.err), result |-> Ran(t)]
        ELSE IF t.err /= Nil
        THEN [next |-> Error(StatusInternalServerError, t.err), result |-> Ran(t)]
        ELSE [next |-> Image(StatusOK, t.data), result |-> Ran(t)]

\* HandleResize as it would be if it rejected only a request that lacks
\* both parameters
HandleResize_BothMissing(req) ==
    LET heightParam == Get(req.query, "height")
        widthParam == Get(req.query, "width")
        height == Atoi(heightParam)
        width == Atoi(widthParam)
        t == ResizeImage(req.body, height.n, width.n)
    IN  IF heightParam = "" /\ widthParam = ""
        THEN Rejected(Error(StatusBadRequest, "missing required parameters"))
        ELSE IF height.err /= Nil
        THEN Rejected(Error(StatusBadRequest, "invalid height: " \o heightParam))
        ELSE IF width.err /= Nil
        THEN Rejected(Error(StatusBadRequest, "invalid width: " \o widthParam))
        ELSE IF t.err = ErrUnsupportedFormat
        THEN [next |-> Error(StatusUnprocessableEntity, t.err), result |-> Ran(t)]
        ELSE IF t.err /= Nil
        THEN [next |-> Error(StatusInternalServerError, t.err), result |-> Ran(t)]
        ELSE [next |-> Image(StatusOK, t.data), result |-> Ran(t)]

HandleResize(req) ==
    LET heightParam == Get(req.query, "height")
        widthParam == Get(req.query, "width")
        height == Atoi(heightParam)
        width == Atoi(widthParam)
        t == ResizeImage(req.body, height.n, width.n)
    IN  IF heightParam = "" \/ widthParam = ""
        THEN Rejected(Error(StatusBadRequest, "missing required parameters"))
        ELSE IF height.err /= Nil
        THEN Rejected(Error(StatusBadRequest, "invalid height: " \o heightParam))
        ELSE IF width.err /= Nil
        THEN Rejected(Error(StatusBadRequest, "invalid width: " \o widthParam))
        ELSE IF t.err = ErrUnsupportedFormat
        THEN [next |-> Error(StatusUnprocessableEntity, t.err), result |-> Ran(t)]
        ELSE IF t.err /= Nil
        THEN [next |-> Error(StatusInternalServerError, t.err), result |-> Ran(t)]
        ELSE [next |-> Image(StatusOK, t.data), result |-> Ran(t)]

\* HandleConvert as it would be without the test for ErrUnsupportedFormat
HandleConvert_NoUnsupported(req) ==
    LET format == Get(req.query, "format")
        t == ConvertImage(req.body, format)
    IN  IF format = ""
        THEN Rejected(Error(StatusBadRequest, "missing required parameter: format"))
        ELSE IF t.err /= Nil
        THEN [next |-> Error(StatusInternalServerError, t.err), result |-> Ran(t)]
        ELSE [next |-> Image(StatusOK, t.data), result |-> Ran(t)]

HandleConvert(req) ==
    LET format == Get(req.query, "format")
        t == ConvertImage(req.body, format)
    IN  IF format = ""
        THEN Rejected(Error(StatusBadRequest, "missing required parameter: format"))
        ELSE IF t.err = ErrUnsupportedFormat
        THEN [next |-> Error(StatusUnprocessableEntity, t.err), result |-> Ran(t)]
        ELSE IF t.err /= Nil
        THEN [next |-> Error(StatusInternalServerError, t.err), result |-> Ran(t)]
        ELSE [next |-> Image(StatusOK, t.data), result |-> Ran(t)]

HandleThumbnail(req) ==
    LET widthParam == Get(req.query, "width")
        width == Atoi(widthParam)
        t == ThumbnailImage(req.body, width.n)
    IN  IF widthParam = ""
        THEN Rejected(Error(StatusBadRequest, "missing required parameter: width"))
        ELSE IF width.err /= Nil
        THEN Rejected(Error(StatusBadRequest, "invalid width: " \o widthParam))
        ELSE IF t.err = ErrUnsupportedFormat
        THEN [next |-> Error(StatusUnprocessableEntity, t.err), result |-> Ran(t)]
        ELSE IF t.err /= Nil
        THEN [next |-> Error(StatusInternalServerError, t.err), result |-> Ran(t)]
        ELSE [next |-> Image(StatusOK, t.data), result |-> Ran(t)]

----------------------------------------------------------------------------
(* net/http: the ResponseWriter.                                           *)

NoResponse == [status |-> 0, contentType |-> "", body |-> <<>>]

NoRequest == [route |-> "", query |-> [height |-> NoParam, width |-> NoParam, format |-> NoParam],
              body |-> EmptyBytes]

\* http.DetectContentType: the content type sniffed from the leading bytes
DetectContentType(data) ==
    IF data.fmt = formatJPEG THEN "image/jpeg"
    ELSE IF data.fmt = formatPNG THEN "image/png"
    ELSE IF data.fmt = formatGIF THEN "image/gif"
    ELSE IF data.fmt = "bmp" THEN "image/bmp"
    ELSE "text/plain; charset=utf-8"

\* w.Header().Set("Content-Type", v): headers set after the status line was
\* written are not sent
SetContentType(w, v) == IF w.status = 0 THEN [w EXCEPT !.contentType = v] ELSE w

\* w.WriteHeader(code): only the first call sends a status line
WriteHeader(w, code) == IF w.status = 0 THEN [w EXCEPT !.status = code] ELSE w

\* w.Write(data)
Write(w, data) ==
    [(IF w.status = 0 THEN [w EXCEPT !.status = StatusOK] ELSE w)
        EXCEPT !.body = Append(w.body, data)]

\* the closure returned by Image as it would be without w.Write(data)
ImageServeHTTP_NoWrite(w, h) ==
    WriteHeader(SetContentType(w, DetectContentType(h.data)), h.code)

\* the closure returned by Image
ImageServeHTTP(w, h) ==
    Write(WriteHeader(SetContentType(w, DetectContentType(h.data)), h.code), h.data)

\* the log line of the closure returned by Error
ErrorLogLine(h) == "Error: " \o h.err \o "\n"

\* the closure returned by Error as it would be if it hid the message of a
\* server error from the client
ErrorServeHTTP_Generic(w, h) ==
    Write(WriteHeader(SetContentType(w, "text/plain; charset=utf-8"), h.code),
          TextBytes((IF h.code = StatusInternalServerError
                     THEN "Internal Server Error" ELSE h.err) \o "\n"))

\* http.Error(w, err.Error(), code) in the closure returned by Error
ErrorServeHTTP(w, h) ==
    Write(WriteHeader(SetContentType(w, "text/plain; charset=utf-8"), h.code),
          TextBytes(h.err \o "\n"))

----------------------------------------------------------------------------
(* The process: environment, command line and flags.                       *)

DefaultHost == "localhost"

DefaultPort == 8080

LowerCase == "abcdefghijklmnopqrstuvwxyz"

UpperCase == "ABCDEFGHIJKLMNOPQRSTUVWXYZ"

\* strings.ToUpper
RECURSIVE ToUpper(_)
ToUpper(s) ==
    IF s = "" THEN ""
    ELSE LET c == SubSeq(s, 1, 1)
             at == {i \in 1 .. Len(LowerCase) : SubSeq(LowerCase, i, i) = c}
         IN  (IF at = {} THEN c ELSE LET i == CHOOSE i \in at : TRUE
                                     IN  SubSeq(UpperCase, i, i))
             \o ToUpper(SubSeq(s, 2, Len(s)))

\* strings.ReplaceAll, for a one-character old
RECURSIVE ReplaceAll(_, _, _)
ReplaceAll(s, old, new) ==
    IF s = "" THEN ""
    ELSE (IF SubSeq(s, 1, 1) = old THEN new ELSE SubSeq(s, 1, 1))
         \o ReplaceAll(SubSeq(s, 2, Len(s)), old, new)

\* the name of the environment variable of the flag f
EnvKey(f) == ReplaceAll(ToUpper(f), "-", "_")

EnvKeys == {"HOST", "PORT"}

Unset == [ok |-> FALSE, value |-> ""]

SetTo(v) == [ok |-> TRUE, value |-> v]

NoEnviron == [k \in EnvKeys |-> Unset]

\* os.LookupEnv
LookupEnv(environ, key) == IF key \in DOMAIN environ THEN environ[key] ELSE Unset

\* flag.Value.Set of the string flag host and of the int flag port.  The
\* int flag stores what strconv.ParseInt returned also when it returns an
\* error, which is 0 for a string that is no number.  (ParseInt is called
\* with base 0; the values of the model are decimal, where it agrees with
\* Atoi.)
FlagSet(flags, name, v) ==
    IF name = "host" THEN [flags |-> [flags EXCEPT !.Host = v], err |-> Nil]
    ELSE [flags |-> [flags EXCEPT !.Port = Atoi(v).n],
          err |-> IF Atoi(v).err = Nil THEN Nil ELSE "parse error"]

FlagNames == <<"host", "port">>

\* flag.VisitAll(...): each flag, in the order of its name, is set from its
\* environment variable when that is set; the error of Set is dropped
RECURSIVE VisitAll(_, _, _)
VisitAll(flags, environ, i) ==
    IF i > Len(FlagNames) THEN flags
    ELSE LET e == LookupEnv(environ, EnvKey(FlagNames[i]))
         IN  VisitAll(IF e.ok THEN FlagSet(flags, FlagNames[i], e.value).flags ELSE flags,
                      environ, i + 1)

\* flag.Parse() on the arguments "-name value ...": parsing stops at the
\* first argument that is no flag; an unknown flag, a flag without a value
\* and a value Set rejects end the process (flag.ExitOnError)
RECURSIVE Parse(_, _)
Parse(flags, args) ==
    IF args = <<>> \/ SubSeq(args[1], 1, 1) /= "-" THEN [flags |-> flags, err |-> Nil]
    ELSE LET name == SubSeq(args[1], 2, Len(args[1]))
         IN  IF \A i \in 1 .. Len(FlagNames) : FlagNames[i] /= name
             THEN [flags |-> flags, err |-> "flag provided but not defined"]
             ELSE IF Len(args) < 2
             THEN [flags |-> flags, err |-> "flag needs an argument"]
             ELSE LET r == FlagSet(flags, name, args[2])
                  IN  IF r.err /= Nil THEN [flags |-> flags, err |-> "invalid value"]
                      ELSE Parse(r.flags, SubSeq(args, 3, Len(args)))

\* ParseFlags as it would be if the environment were applied after the
\* command line
ParseFlags_EnvLast(environ, args) ==
    LET r == Parse([Host |-> DefaultHost, Port |-> DefaultPort], args)
    IN  [flags |-> VisitAll(r.flags, environ, 1), err |-> r.err]

\* ParseFlags: the defaults, then the environment, then the command line
ParseFlags(environ, args) ==
    Parse(VisitAll([Host |-> DefaultHost, Port |-> DefaultPort], environ, 1), args)

\* the process at the start of main
Started(environ, args) ==
    [pc |-> "start", environ |-> environ, args |-> args,
     flags |-> [Host |-> "", Port |-> 0], addr |-> "",
     goroutine |-> "none", pending |-> {}]

\* main after flags := ParseFlags(): exited with status 2 when the command
\* line is rejected
Parsed(m) ==
    LET r == ParseFlags(m.environ, m.args)
    IN  IF r.err /= Nil THEN [m EXCEPT !.pc = "exit2"]
        ELSE [m EXCEPT !.pc = "parsed", !.flags = r.flags]

\* main up to the start of the server goroutine
Listen(m) ==
    [m EXCEPT !.pc = "serving", !.goroutine = "listening",
              !.addr = m.flags.Host \o ":" \o Itoa(m.flags.Port)]

\* the first log line of the server goroutine
ListeningLine(m) == "Listening on " \o m.addr \o "\n"

\* the log line of main before it calls srv.Shutdown
ShuttingDownLine == "Shutting down...\n"

\* the log line of the server goroutine when srv.ListenAndServe returns
\* http.ErrServerClosed
ServerClosedLine == "http: Server closed\n"

\* The environments and command lines the model enumerates.
Environs ==
    [HOST : {Unset, SetTo("192.168.1.1"), SetTo("")},
     PORT : {Unset, SetTo("7070"), SetTo("abc"), SetTo("")}]

ArgLists ==
    {<<>>,
     <<"-host", "10.0.0.1">>,
     <<"-port", "9090">>,
     <<"-host", "10.0.0.1", "-port", "6060">>,
     <<"-port", "9090", "-port", "6060">>,
     <<"-port", "abc">>,
     <<"-port">>,
     <<"-verbose", "1">>,
     <<"serve", "-port", "9090">>}

----------------------------------------------------------------------------
(* The state machine.                                                      *)

\* no connection has been accepted
NoConnections ==
    /\ pc = [s \in Slots |-> "idle"]
    /\ request = [s \in Slots |-> NoRequest]
    /\ next = [s \in Slots |-> NoHandler]
    /\ result = [s \in Slots |-> NotRun]
    /\ response = [s \in Slots |-> NoResponse]

\* the process started with an empty environment and no arguments, up to
\* the point where the server listens
Init ==
    /\ NoConnections
    /\ main = Listen(Parsed(Started(NoEnviron, <<>>)))
    /\ log = <<ListeningLine(main)>>

\* the server goroutine has called srv.ListenAndServe and main has not yet
\* called srv.Shutdown: the listener is open, also in the time between the
\* arrival of the signal and main's reaction to it
Listening == main.pc \in {"serving", "signalled"}

\* the process has not exited
Alive == main.pc \in {"serving", "signalled", "shutdown"}

\* the slots whose request has been accepted and not yet answered
InFlight == {s \in Slots : pc[s] \notin {"idle", "done"}}

\* a request arrives and the mux hands it to Handler.ServeHTTP
Accept(s) ==
    /\ Listening
    /\ pc[s] = "idle"
    /\ \E req \in Requests : request' = [request EXCEPT ![s] = req]
    /\ pc' = [pc EXCEPT ![s] = "serve"]
    /\ UNCHANGED <<next, result, response, log, main>>

\* Handler.ServeHTTP as it would be if next were a package-level variable
\* shared by all requests
CallRoute_Shared(s, out) ==
    /\ Alive
    /\ pc[s] = "serve"
    /\ next' = [t \in Slots |-> out.next]
    /\ result' = [result EXCEPT ![s] = out.result]
    /\ pc' = [pc EXCEPT ![s] = IF out.next = NoHandler THEN "done" ELSE "next"]
    /\ UNCHANGED <<request, response, log, main>>

\* Handler.ServeHTTP calls the route function h(w, r)
CallRoute(s, out) ==
    /\ Alive
    /\ pc[s] = "serve"
    /\ next' = [next EXCEPT ![s] = out.next]
    /\ result' = [result EXCEPT ![s] = out.result]
    /\ pc' = [pc EXCEPT ![s] = IF out.next = NoHandler THEN "done" ELSE "next"]
    /\ UNCHANGED <<request, response, log, main>>

RouteResize(s) == request[s].route = "/resize" /\ CallRoute(s, HandleResize(request[s]))

RouteConvert(s) == request[s].route = "/convert" /\ CallRoute(s, HandleConvert(request[s]))

RouteThumbnail(s) ==
    request[s].route = "/thumbnail" /\ CallRoute(s, HandleThumbnail(request[s]))

\* Handler.ServeHTTP calls next.ServeHTTP(w, r), next made by Image
ServeImage(s) ==
    /\ Alive
    /\ pc[s] = "next"
    /\ next[s].fn = "Image"
    /\ response' = [response EXCEPT ![s] = ImageServeHTTP(response[s], next[s])]
    /\ pc' = [pc EXCEPT ![s] = "done"]
    /\ UNCHANGED <<request, next, result, log, main>>

\* Handler.ServeHTTP calls next.ServeHTTP(w, r), next made by Error: first
\* the log line
ServeErrorLog(s) ==
    /\ Alive
    /\ pc[s] = "next"
    /\ next[s].fn = "Error"
    /\ log' = Append(log, ErrorLogLine(next[s]))
    /\ pc' = [pc EXCEPT ![s] = "logged"]
    /\ UNCHANGED <<request, next, result, response, main>>

\* ... and then the error response
ServeErrorReply(s) ==
    /\ Alive
    /\ pc[s] = "logged"
    /\ response' = [response EXCEPT ![s] = ErrorServeHTTP(response[s], next[s])]
    /\ pc' = [pc EXCEPT ![s] = "done"]
    /\ UNCHANGED <<request, next, result, log, main>>

Serve(s) ==
    \/ RouteResize(s)
    \/ RouteConvert(s)
    \/ RouteThumbnail(s)
    \/ ServeImage(s)
    \/ ServeErrorLog(s)
    \/ ServeErrorReply(s)

\* Requests that arrive while others are being served, one on each route: a
\* /resize without height (400), a conversion of a JPEG to GIF (200), and a
\* thumbnail of bytes that are no image (500).
SomeRequests ==
    {[route |-> "/resize",
      query |-> [height |-> NoParam, width |-> Param("3"), format |-> NoParam],
      body |-> ImageBytes(formatPNG, 1, 1)],
     [route |-> "/convert",
      query |-> [height |-> NoParam, width |-> NoParam, format |-> Param(formatGIF)],
      body |-> ImageBytes(formatJPEG, 2, 2)],
     [route |-> "/thumbnail",
      query |-> [height |-> NoParam, width |-> Param("2"), format |-> NoParam],
      body |-> TextBytes("not an image")]}

\* a request arrives on a connection of its own while the listener is open
AcceptSome(s) ==
    /\ Listening
    /\ pc[s] = "idle"
    /\ \E req \in SomeRequests : request' = [request EXCEPT ![s] = req]
    /\ pc' = [pc EXCEPT ![s] = "serve"]
    /\ UNCHANGED <<next, result, response, log, main>>

\* os.Interrupt arrives and shutdownCtx is cancelled; pending records the
\* requests in flight at that moment
Interrupt ==
    /\ main.pc = "serving"
    /\ main' = [main EXCEPT !.pc = "signalled", !.pending = InFlight]
    /\ UNCHANGED <<pc, request, next, result, response, log>>

\* main returns from <-shutdownCtx.Done(), logs, and calls srv.Shutdown,
\* which closes the listener
Shutdown ==
    /\ main.pc = "signalled"
    /\ main' = [main EXCEPT !.pc = "shutdown"]
    /\ log' = Append(log, ShuttingDownLine)
    /\ UNCHANGED <<pc, request, next, result, response>>

\* in the server goroutine srv.ListenAndServe returns and its error is
\* logged
ServerClosed ==
    /\ main.pc = "shutdown"
    /\ main.goroutine = "listening"
    /\ main' = [main EXCEPT !.goroutine = "returned"]
    /\ log' = Append(log, ServerClosedLine)
    /\ UNCHANGED <<pc, request, next, result, response>>

\* main as it would be with srv.Close in place of srv.Shutdown: it returns
\* without waiting
Exit_Close ==
    /\ main.pc = "shutdown"
    /\ main' = [main EXCEPT !.pc = "exited"]
    /\ UNCHANGED <<pc, request, next, result, response, log>>

\* srv.Shutdown(context.Background()) returns once no connection is serving
\* a request, and main returns
Exit ==
    /\ main.pc = "shutdown"
    /\ InFlight = {}
    /\ main' = [main EXCEPT !.pc = "exited"]
    /\ UNCHANGED <<pc, request, next, result, response, log>>

\* main calls ParseFlags
RunParseFlags ==
    /\ main.pc = "start"
    /\ main' = Parsed(main)
    /\ UNCHANGED <<pc, request, next, result, response, log>>

\* main builds the address and the mux and starts the server goroutine,
\* which logs the address and listens
StartServer ==
    /\ main.pc = "parsed"
    /\ main' = Listen(main)
    /\ log' = Append(log, ListeningLine(main'))
    /\ UNCHANGED <<pc, request, next, result, response>>

\* One connection: the requests of Requests, each served on slot 1.
Next ==
    \/ Accept(1)
    \/ Serve(1)

Spec == Init /\ [][Next]_vars

\* The start of the process, from every enumerated environment and command
\* line.
InitFlags ==
    /\ NoConnections
    /\ log = <<>>
    /\ \E e \in Environs, a \in ArgLists : main = Started(e, a)

NextFlags ==
    \/ RunParseFlags
    \/ StartServer

SpecFlags == InitFlags /\ [][NextFlags]_vars

\* The server with one connection per slot, served concurrently, and the
\* interrupt.  Every handler goroutine that can take a step eventually takes
\* it, and so does main; when requests and the signal arrive is up to the
\* environment.
NextServer ==
    \/ \E s \in Slots : AcceptSome(s)
    \/ \E s \in Slots : Serve(s)
    \/ Interrupt
    \/ Shutdown
    \/ ServerClosed
    \/ Exit

SpecServer ==
    /\ Init
    /\ [][NextServer]_vars
    /\ \A s \in Slots : WF_vars(Serve(s))
    /\ WF_vars(Shutdown)
    /\ WF_vars(Exit)

----------------------------------------------------------------------------
(* Vocabulary of the properties.  The integer a query value denotes is     *)
(* read off the enumeration of the values, not computed by Atoi.           *)

Done(s) == pc[s] = "done"

Numeric(v) == v \in NumericValues

NonNumeric(v) == v \in NonNumericValues

IntOf(v) ==
    IF v = "+2" THEN 2
    ELSE CHOOSE n \in (-MaxDim .. MaxDim) \cup DimValues : Itoa(n) = v

Decodable(b) == b.fmt \in {formatJPEG, formatPNG, formatGIF}

HeightOf(s) == Get(request[s].query, "height")

WidthOf(s) == Get(request[s].query, "width")

FormatOf(s) == Get(request[s].query, "format")

\* the query of the request fails the validation of its route
ParamError(s) ==
    IF request[s].route = "/resize"
    THEN ~Numeric(HeightOf(s)) \/ ~Numeric(WidthOf(s))
    ELSE IF request[s].route = "/convert" THEN FormatOf(s) = ""
    ELSE ~Numeric(WidthOf(s))

\* the response is the error response with this status and message
ErrorResponse(s, code, msg) ==
    /\ response[s].status = code
    /\ response[s].body = <<TextBytes(msg \o "\n")>>

\* the response is 200 with exactly these image bytes
ImageResponse(s, data) ==
    /\ response[s].status = StatusOK
    /\ response[s].body = <<data>>
    /\ data /= EmptyBytes

----------------------------------------------------------------------------
----------------------------------------------------------------------------
----------------------------------------------------------------------------
(* /resize.                                                                *)

\* the request of slot s is a /resize of a decodable image to h x w
ResizeOf(s, h, w) ==
    /\ Done(s)
    /\ request[s].route = "/resize"
    /\ Decodable(request[s].body)
    /\ Numeric(HeightOf(s)) /\ IntOf(HeightOf(s)) = h
    /\ Numeric(WidthOf(s)) /\ IntOf(WidthOf(s)) = w

\* the encoder of format f accepts an image of w x h pixels
Encodable(f, w, h) ==
    /\ w >= 1 /\ h >= 1
    /\ f \in {formatJPEG, formatGIF} => (w < EncLimit /\ h < EncLimit)

PositiveDims == DimValues \ {0}

(* C3 as stated: for every decodable JPEG, PNG or GIF body and every pair  *)
(* of positive height and width, /resize answers 200 with a non-empty      *)
(* image of exactly width x height in the format of the source.            *)
C3_AnyPositiveSize ==
    \A s \in Slots : \A h \in PositiveDims, w \in PositiveDims :
        ResizeOf(s, h, w) => ImageResponse(s, ImageBytes(request[s].body.fmt, w, h))

(* C3 as amended: the same, for every positive height and width that the   *)
(* encoder of the source format accepts (both below 65536 when the source  *)
(* is a JPEG or a GIF).                                                    *)
C3_ResizeExact ==
    \A s \in Slots : \A h \in PositiveDims, w \in PositiveDims :
        (ResizeOf(s, h, w) /\ Encodable(request[s].body.fmt, w, h)) =>
            ImageResponse(s, ImageBytes(request[s].body.fmt, w, h))

\* a 2 x 3 GIF resized to width 3 and height 1: the aspect ratio changes
C3_Witness ==
    \E s \in Slots :
        /\ ResizeOf(s, 1, 3)
        /\ request[s].body = ImageBytes(formatGIF, 2, 3)
        /\ response[s].body = <<ImageBytes(formatGIF, 3, 1)>>

----------------------------------------------------------------------------
(* /thumbnail.                                                             *)

\* the request of slot s is a /thumbnail of a decodable image to width w
ThumbnailOf(s, w) ==
    /\ Done(s)
    /\ request[s].route = "/thumbnail"
    /\ Decodable(request[s].body)
    /\ Numeric(WidthOf(s)) /\ IntOf(WidthOf(s)) = w

\* floor(source_height * width / source_width)
Quotient(b, w) == (b.h * w) \div b.w

----------------------------------------------------------------------------
(* /convert.                                                               *)

Targets == {formatJPEG, formatPNG, formatGIF}

\* the request of slot s is a /convert of a decodable image
ConvertOf(s) ==
    /\ Done(s)
    /\ request[s].route = "/convert"
    /\ Decodable(request[s].body)

(* C5 as stated: for every decodable image and every target format of      *)
(* jpeg, png, gif the output is in the target format and has the width     *)
(* and height of the source.                                               *)
C5_AnySource ==
    \A s \in Slots :
        (ConvertOf(s) /\ FormatOf(s) \in Targets) =>
            ImageResponse(s, ImageBytes(FormatOf(s), request[s].body.w, request[s].body.h))

(* C5 as amended: the same for every decodable image whose size the        *)
(* encoder of the target format accepts (both sides below 65536 when the   *)
(* target is jpeg or gif).                                                 *)
C5_ConvertKeepsSize ==
    \A s \in Slots :
        (/\ ConvertOf(s) /\ FormatOf(s) \in Targets
         /\ Encodable(FormatOf(s), request[s].body.w, request[s].body.h)) =>
            ImageResponse(s, ImageBytes(FormatOf(s), request[s].body.w, request[s].body.h))

\* a GIF converted to JPEG
C5_Witness ==
    \E s \in Slots :
        /\ ConvertOf(s)
        /\ request[s].body = ImageBytes(formatGIF, 2, 3)
        /\ response[s].body = <<ImageBytes(formatJPEG, 2, 3)>>

----------------------------------------------------------------------------
(* Query-parameter errors.                                                 *)

(* C6: a request that omits a required parameter, or gives it as the empty *)
(* string, is answered 400 with the fixed message of the route.            *)
C6_MissingParameter ==
    \A s \in Slots : Done(s) =>
        /\ (request[s].route = "/resize" /\ (HeightOf(s) = "" \/ WidthOf(s) = "")) =>
               ErrorResponse(s, StatusBadRequest, "missing required parameters")
        /\ (request[s].route = "/convert" /\ FormatOf(s) = "") =>
               ErrorResponse(s, StatusBadRequest, "missing required parameter: format")
        /\ (request[s].route = "/thumbnail" /\ WidthOf(s) = "") =>
               ErrorResponse(s, StatusBadRequest, "missing required parameter: width")

\* a /resize with a height and no width, answered with the fixed message
C6_Witness ==
    \E s \in Slots :
        /\ Done(s)
        /\ request[s].route = "/resize"
        /\ HeightOf(s) = "2" /\ ~request[s].query.width.present
        /\ response[s].body = <<TextBytes("missing required parameters\n")>>

(* C7 as stated: on /resize and /thumbnail a present, non-numeric width v  *)
(* is answered 400 "invalid width: v", and on /resize a present,           *)
(* non-numeric height v is answered 400 "invalid height: v".               *)
C7_AnyNonNumeric ==
    \A s \in Slots : Done(s) =>
        /\ (request[s].route \in {"/resize", "/thumbnail"} /\ NonNumeric(WidthOf(s))) =>
               ErrorResponse(s, StatusBadRequest, "invalid width: " \o WidthOf(s))
        /\ (request[s].route = "/resize" /\ NonNumeric(HeightOf(s))) =>
               ErrorResponse(s, StatusBadRequest, "invalid height: " \o HeightOf(s))

(* C7 as amended: on /thumbnail a non-empty, non-numeric width v is        *)
(* answered 400 "invalid width: v"; on /resize a non-empty, non-numeric    *)
(* height v is answered 400 "invalid height: v" when width is given and    *)
(* not empty, and a non-empty, non-numeric width v is answered 400         *)
(* "invalid width: v" when height is numeric.                              *)
C7_InvalidParameter ==
    \A s \in Slots : Done(s) =>
        /\ (request[s].route = "/thumbnail" /\ NonNumeric(WidthOf(s))) =>
               ErrorResponse(s, StatusBadRequest, "invalid width: " \o WidthOf(s))
        /\ (request[s].route = "/resize" /\ NonNumeric(WidthOf(s))
                /\ Numeric(HeightOf(s))) =>
               ErrorResponse(s, StatusBadRequest, "invalid width: " \o WidthOf(s))
        /\ (request[s].route = "/resize" /\ NonNumeric(HeightOf(s))
                /\ WidthOf(s) /= "") =>
               ErrorResponse(s, StatusBadRequest, "invalid height: " \o HeightOf(s))

\* /resize?height=2&width=5x answered "invalid width: 5x"
C7_Witness ==
    \E s \in Slots :
        /\ Done(s)
        /\ request[s].route = "/resize"
        /\ HeightOf(s) = "2" /\ WidthOf(s) = "5x"
        /\ response[s].body = <<TextBytes("invalid width: 5x\n")>>

----------------------------------------------------------------------------
(* Transform errors.                                                       *)

(* C8 as stated: a /convert whose format is given and is not jpeg, png or  *)
(* gif is answered 422 "unsupported format".                               *)
C8_AnyBody ==
    \A s \in Slots :
        (/\ Done(s) /\ request[s].route = "/convert"
         /\ FormatOf(s) /= "" /\ FormatOf(s) \notin Targets) =>
            ErrorResponse(s, StatusUnprocessableEntity, "unsupported format")

(* C8 as amended: a /convert whose format is given, not empty and not      *)
(* jpeg, png or gif, and whose body decodes as an image, is answered 422   *)
(* "unsupported format".                                                   *)
C8_UnsupportedTarget ==
    \A s \in Slots :
        (ConvertOf(s) /\ FormatOf(s) /= "" /\ FormatOf(s) \notin Targets) =>
            ErrorResponse(s, StatusUnprocessableEntity, "unsupported format")

\* a JPEG sent to /convert?format=bmp
C8_Witness ==
    \E s \in Slots :
        /\ ConvertOf(s)
        /\ FormatOf(s) = "bmp"
        /\ request[s].body.fmt = formatJPEG
        /\ response[s].status = StatusUnprocessableEntity

\* the query of the request passes the validation of its route
ParamsValid(s) == ~ParamError(s)

C10_UnsupportedSource ==
    \A s \in Slots :
        (/\ Done(s) /\ request[s].route \in {"/resize", "/thumbnail"}
         /\ ParamsValid(s)
         /\ request[s].body.fmt = "bmp") =>
            response[s].status = StatusUnprocessableEntity

----------------------------------------------------------------------------
(* Sizes that are not positive.                                            *)

\* the value v is an integer that is zero or negative
NonPositive(v) == Numeric(v) /\ IntOf(v) <= 0

(* C11: a /resize that gives zero or a negative integer as height or       *)
(* width, or a /thumbnail that gives one as width, is rejected with 400    *)
(* and no transform is run.                                                *)
C11_PositiveOnly ==
    \A s \in Slots : Done(s) =>
        /\ (request[s].route = "/resize"
                /\ (NonPositive(HeightOf(s)) \/ NonPositive(WidthOf(s)))) =>
               (response[s].status = StatusBadRequest /\ ~result[s].ran)
        /\ (request[s].route = "/thumbnail" /\ NonPositive(WidthOf(s))) =>
               (response[s].status = StatusBadRequest /\ ~result[s].ran)

----------------------------------------------------------------------------
(* The order of the checks.                                                *)

\* the route function of slot s has returned
Routed(s) == pc[s] \in {"next", "logged", "done"}

(* C16: every handler stops at the first failed check.  The query is       *)
(* validated before the body is read, so a request with a missing or       *)
(* non-numeric parameter gets 400 whatever its body is; on /resize the     *)
(* presence of both parameters is checked first, then height is parsed,    *)
(* then width.                                                             *)
C16_ValidationFirst ==
    \A s \in Slots :
        /\ (Routed(s) /\ ParamError(s)) =>
               (~result[s].ran /\ next[s].fn = "Error" /\ next[s].code = StatusBadRequest)
        /\ (Done(s) /\ ParamError(s)) => response[s].status = StatusBadRequest
        /\ (Done(s) /\ request[s].route = "/resize") =>
            /\ (HeightOf(s) = "" \/ WidthOf(s) = "") =>
                   ErrorResponse(s, StatusBadRequest, "missing required parameters")
            /\ (HeightOf(s) /= "" /\ WidthOf(s) /= "" /\ ~Numeric(HeightOf(s))) =>
                   ErrorResponse(s, StatusBadRequest, "invalid height: " \o HeightOf(s))
            /\ (Numeric(HeightOf(s)) /\ WidthOf(s) /= "" /\ ~Numeric(WidthOf(s))) =>
                   ErrorResponse(s, StatusBadRequest, "invalid width: " \o WidthOf(s))

\* /resize?height=abc&width=5x with a well-formed image as body: answered
\* "invalid height: abc", the body unread
C16_Witness ==
    \E s \in Slots :
        /\ Done(s)
        /\ request[s].route = "/resize"
        /\ HeightOf(s) = "abc" /\ WidthOf(s) = "5x"
        /\ Decodable(request[s].body)
        /\ ~result[s].ran
        /\ response[s].body = <<TextBytes("invalid height: abc\n")>>

----------------------------------------------------------------------------
(* Logging.                                                                *)

\* the Error handler of slot s has written its log line
Logged(s) == pc[s] \in {"logged", "done"} /\ next[s].fn = "Error"

\* the positions of the log lines written by Error
ErrorLines ==
    {i \in 1 .. Len(log) : Len(log[i]) >= 7 /\ SubSeq(log[i], 1, 7) = "Error: "}

(* C14: every request that ends in an error is logged exactly once, the    *)
(* log line is written before the response, and the response has the       *)
(* status given to Error and as body the logged message and one newline.   *)
C14_LoggedThenReplied ==
    /\ Cardinality(ErrorLines) = Cardinality({s \in Slots : Logged(s)})
    /\ \A s \in Slots :
        /\ (response[s] /= NoResponse /\ next[s].fn = "Error") => Logged(s)
        /\ pc[s] = "logged" =>
               (response[s] = NoResponse
                /\ \E i \in 1 .. Len(log) : log[i] = "Error: " \o next[s].err \o "\n")
        /\ (Done(s) /\ next[s].fn = "Error") =>
            /\ response[s].status = next[s].code
            /\ Len(response[s].body) = 1
            /\ response[s].body[1].fmt = "text"
            /\ response[s].body[1].text = next[s].err \o "\n"
            /\ \E i \in 1 .. Len(log) : log[i] = "Error: " \o response[s].body[1].text

\* an encoder's error answered 500: logged once, and the same text sent
C14_Witness ==
    \E s \in Slots :
        /\ Done(s)
        /\ next[s].fn = "Error"
        /\ next[s].err = "jpeg: image is too large to encode"
        /\ Cardinality(ErrorLines) = 1
        /\ \A i \in ErrorLines : log[i] = "Error: jpeg: image is too large to encode\n"
        /\ response[s].body = <<TextBytes("jpeg: image is too large to encode\n")>>

----------------------------------------------------------------------------
(* Flags.                                                                  *)

\* the positions of the flag names on the command line: every other
\* argument, up to the first one that does not start with "-"
FlagPositions ==
    {i \in 1 .. Len(main.args) - 1 :
        /\ i % 2 = 1
        /\ \A j \in 1 .. i : j % 2 = 1 => SubSeq(main.args[j], 1, 1) = "-"}

\* the flag -name is given on the command line
CliGiven(name) == \E i \in FlagPositions : main.args[i] = "-" \o name

\* the value of the last -name on the command line
CliValue(name) ==
    LET last == CHOOSE i \in FlagPositions :
                    /\ main.args[i] = "-" \o name
                    /\ \A j \in FlagPositions : j > i => main.args[j] /= "-" \o name
    IN  main.args[last + 1]

\* ParseFlags has returned
FlagsParsed == main.pc \in {"parsed", "serving"}

\* what the precedence of C13 gives for a flag, as a string
Resolved(name, key, default) ==
    IF CliGiven(name) THEN CliValue(name)
    ELSE IF main.environ[key].ok THEN main.environ[key].value
    ELSE default

\* the strings of the model that denote a port
PortValues == {"7070", "9090", "6060"}

(* C13 as stated: host and port are each the command-line value if given,  *)
(* otherwise the value of HOST or PORT if that variable is set, otherwise   *)
(* the default.                                                            *)
C13_EnvIfSet ==
    FlagsParsed =>
        /\ main.flags.Host = Resolved("host", "HOST", DefaultHost)
        /\ Itoa(main.flags.Port) = Resolved("port", "PORT", Itoa(DefaultPort))

(* C13 as amended: the same, where PORT counts only if its value is an     *)
(* integer; when PORT is set to anything else and -port is not given, no    *)
(* error is reported and the port is neither that value nor promised to be  *)
(* the default.                                                            *)
C13_Precedence ==
    FlagsParsed =>
        /\ main.flags.Host = Resolved("host", "HOST", DefaultHost)
        /\ (CliGiven("port") \/ ~main.environ["PORT"].ok
                \/ main.environ["PORT"].value \in PortValues) =>
               Itoa(main.flags.Port) = Resolved("port", "PORT", Itoa(DefaultPort))

\* HOST and PORT set and only -host given: host from the command line, port
\* from the environment
C13_Witness ==
    /\ FlagsParsed
    /\ main.args = <<"-host", "10.0.0.1">>
    /\ main.environ = [HOST |-> SetTo("192.168.1.1"), PORT |-> SetTo("7070")]
    /\ main.flags = [Host |-> "10.0.0.1", Port |-> 7070]

----------------------------------------------------------------------------
(* Shutdown.                                                               *)

\* a step accepts a request
Accepts == \E s \in Slots : pc[s] = "idle" /\ pc'[s] = "serve"

\* the response of slot s is complete: header and whole body
FullResponse(s) ==
    /\ response[s].status = next[s].code
    /\ Len(response[s].body) = 1
    /\ next[s].fn = "Image" => response[s].body = <<next[s].data>>
    /\ next[s].fn = "Error" => response[s].body = <<TextBytes(next[s].err \o "\n")>>

\* the process exits only after every request that was in flight at the
\* interrupt, and every other accepted request, has its full response
ExitsLast ==
    main.pc = "exited" =>
        /\ InFlight = {}
        /\ \A s \in Slots : pc[s] /= "idle" => Done(s) /\ FullResponse(s)
        /\ \A s \in main.pending : Done(s) /\ FullResponse(s)

(* C12 as stated: requests are accepted until the interrupt and none after *)
(* it; every request in flight at the interrupt completes with its full    *)
(* response, so the process does exit after the interrupt, and only after   *)
(* all of them have completed.                                             *)
C12_NoAcceptAfterInterrupt ==
    /\ [][Accepts => main.pc = "serving"]_vars
    /\ []ExitsLast
    /\ (main.pc = "signalled") ~> (main.pc = "exited")

(* C12 as amended: requests are accepted until main, woken by the          *)
(* interrupt, calls srv.Shutdown, and none after that; every request        *)
(* accepted before that, so every request in flight at the interrupt,       *)
(* completes with its full response: with requests in flight the process    *)
(* does exit, and only after all of them have completed.                   *)
C12_GracefulShutdown ==
    /\ [][Accepts => main.pc \in {"serving", "signalled"}]_vars
    /\ []ExitsLast
    /\ (main.pc \in {"signalled", "shutdown"} /\ InFlight /= {}) ~> (main.pc = "exited")

\* the process has exited, and requests that were in flight at the
\* interrupt have been answered, one of them with an image
C12_Witness ==
    /\ main.pc = "exited"
    /\ main.pending /= {}
    /\ \A s \in main.pending : Done(s) /\ FullResponse(s)
    /\ \E s \in main.pending : response[s].status = StatusOK

----------------------------------------------------------------------------
(* Concurrent requests.                                                    *)

\* what the route function of the request returns
RouteOf(req) ==
    IF req.route = "/resize" THEN HandleResize(req)
    ELSE IF req.route = "/convert" THEN HandleConvert(req)
    ELSE HandleThumbnail(req)

\* the response to the request when it is the only one served
ServedAlone(req) ==
    LET h == RouteOf(req).next
    IN  IF h.fn = "Image" THEN ImageServeHTTP(NoResponse, h)
        ELSE ErrorServeHTTP(NoResponse, h)

(* C15: whatever other requests are served at the same time and however    *)
(* their steps interleave, the handler a request runs and the response it  *)
(* gets are those of the request served alone.                             *)
C15_Isolation ==
    \A s \in Slots :
        /\ pc[s] \in {"next", "logged", "done"} => next[s] = RouteOf(request[s]).next
        /\ Done(s) => response[s] = ServedAlone(request[s])
        /\ ~Done(s) => response[s] = NoResponse

\* two different requests that were both in flight at the interrupt, one
\* answered with an image and one with an error
C15_Witness ==
    \E s, t \in main.pending :
        /\ request[s] /= request[t]
        /\ Done(s) /\ Done(t)
        /\ response[s].status = StatusOK
        /\ response[t].status = StatusBadRequest
        /\ response[s] = ServedAlone(request[s])
        /\ response[t] = ServedAlone(request[t])

====
